---------------------------- MODULE Spec2Model ----------------------------
(***************************************************************************)
(* A model of the astro-coffee server process (coffeeserver.main) and of   *)
(* the worker processes of its background executor (setup_worker,          *)
(* close_database, coffee_workers.get_local_authors).                      *)
(*                                                                         *)
(* The Supervisor is main(): its position is pc.  Signals, the outcome of  *)
(* each listen() call, the outcome of each Ingest Job invocation and the   *)
(* outcome of each database call are inputs chosen by the environment.     *)
(***************************************************************************)
EXTENDS Integers, Sequences, FiniteSets

\* ------------------------------------------------------------------ bounds
\* The retry loop of main() has no bound of its own on the port number (see
\* ListenInUse); the model follows it this many ports past the configured one.
MaxPortSpan == 11
\* Timer firings followed by the model.
MaxFirings == 2
\* Interrupt signals delivered to the worker processes that are running.
MaxWorkerSignals == 1
\* Calls of close_database() followed per worker when it is called repeatedly.
MaxCloseCalls == 3
\* Values of random.random() followed per firing: k / RandomSteps, k below it.
RandomSteps == 4
\* ------------------------------------------------------- program constants
maxtries == 10
\* Line 430: the callback_time of the PeriodicCallback, in milliseconds.
PeriodMs == 86400000
\* Line 431: jitter = 0.1, in hundredths.
JitterPercent == 10

\* The values of CONF.server_port the model starts from.
ConfiguredPorts == {5005}
\* The worker processes of the pool (CONF.max_workers of them).
Workers == {"w1", "w2"}
Signals == {"SIGINT", "SIGTERM"}

VARIABLES
    firstrun_file,   \* the first-run marker exists in BASEDIR
    conf_file,       \* coffee_settings.py exists in BASEDIR
    CONF,            \* the configuration has been loaded
    P,               \* CONF.server_port
    pc,              \* position of main()
    exitStatus,      \* how the process ended: "running" until then
    serverport, portok, thistry,
    attempts,        \* number of http_server.listen() calls made
    tried,           \* the port of the last listen() call, 0 if none
    boundPort,       \* the port the listener is bound to, 0 if none
    sigintH, sigtermH, \* the Supervisor's dispositions of SIGINT and SIGTERM
    EXECUTOR,        \* the pool: "none", "running", "shutting", "closed"
    shutdownCalls,   \* number of EXECUTOR.shutdown() calls
    timer,           \* periodic_arxiv_updater: "Unarmed", "Armed", "Stopped"
    loopRunning,     \* the IOLoop is running
    cb,              \* the timer callback in progress on the loop: "none", "ingest"
    firings,         \* timer firings started
    interval,        \* ms the timer waited before the firing in progress, 0 if none
    initialIngest,   \* the synchronous invocation: "none", "running", "returned", "raised"
    caughtAt,        \* where the KeyboardInterrupt caught by main() was raised
    firingAborted,   \* a firing in progress was unwound by KeyboardInterrupt
    firingFailed,    \* some timer firing raised
    hist,            \* the startup steps taken, in order
    wk               \* the worker processes

supVars == <<firstrun_file, conf_file, CONF, P, pc, exitStatus, serverport, portok,
             thistry, attempts, tried, boundPort, sigintH, sigtermH, EXECUTOR,
             shutdownCalls, timer, loopRunning, cb, firings, interval, initialIngest,
             caughtAt, firingAborted, firingFailed, hist>>
vars == <<supVars, wk>>

\* A worker process before the pool has started it.
NoWorker ==
    [st |-> "unspawned", sigint |-> "default",
     engine |-> FALSE, connection |-> FALSE, metadata |-> FALSE,
     finalized |-> 0, finRaised |-> FALSE, closed |-> 0, disposed |-> 0,
     logged |-> FALSE, initFailed |-> FALSE, opened |-> 0, taskErr |-> FALSE,
     nsig |-> 0, sigAt |-> "none", cut |-> FALSE, ops |-> <<>>]

Init ==
    /\ firstrun_file \in BOOLEAN
    /\ conf_file \in BOOLEAN
    /\ CONF = FALSE
    /\ P \in ConfiguredPorts
    /\ pc = "start"
    /\ exitStatus = "running"
    /\ serverport = 0
    /\ portok = FALSE
    /\ thistry = 0
    /\ attempts = 0
    /\ tried = 0
    /\ boundPort = 0
    /\ sigintH = "default"
    /\ sigtermH = "default"
    /\ EXECUTOR = "none"
    /\ shutdownCalls = 0
    /\ timer = "Unarmed"
    /\ loopRunning = FALSE
    /\ cb = "none"
    /\ firings = 0
    /\ interval = 0
    /\ initialIngest = "none"
    /\ caughtAt = "none"
    /\ firingAborted = FALSE
    /\ firingFailed = FALSE
    /\ hist = <<>>
    /\ wk = [w \in Workers |-> NoWorker]

\* The process ends: sys.exit(1), an uncaught exception, a default-action kill or
\* the return of main().
Exit(status) ==
    /\ pc' = "exited"
    /\ exitStatus' = status

\* ------------------------------------------------------------ Supervisor

\* LoadConfig as it would be if lines 170-174 logged the error and went on
\* instead of calling sys.exit(1).
LoadConfigNoExit ==
    /\ pc = "start"
    /\ IF firstrun_file
         THEN /\ CONF' = conf_file
              /\ UNCHANGED <<firstrun_file, conf_file>>
         ELSE /\ firstrun_file' = TRUE
              /\ conf_file' = TRUE
              /\ CONF' = TRUE
    /\ pc' = "pool"
    /\ hist' = Append(hist, "config")
    /\ UNCHANGED <<P, exitStatus, serverport, portok, thistry, attempts, tried,
                   boundPort, sigintH, sigtermH, EXECUTOR, shutdownCalls, timer,
                   loopRunning, cb, firings, interval, initialIngest, caughtAt,
                   firingAborted, firingFailed, wk>>

\* main(), lines 162-189: the four-way decision on the marker and the config file.
LoadConfig ==
    /\ pc = "start"
    /\ IF firstrun_file /\ conf_file
         THEN /\ CONF' = TRUE
              /\ pc' = "pool"
              /\ hist' = Append(hist, "config")
              /\ UNCHANGED <<firstrun_file, conf_file, exitStatus>>
       ELSE IF firstrun_file /\ ~conf_file
         THEN /\ Exit("exit1")
              /\ UNCHANGED <<firstrun_file, conf_file, CONF, hist>>
       ELSE IF ~firstrun_file
         THEN /\ firstrun_file' = TRUE
              /\ conf_file' = TRUE
              /\ CONF' = TRUE
              /\ pc' = "pool"
              /\ hist' = Append(hist, "config")
              /\ UNCHANGED exitStatus
       ELSE /\ Exit("exit1")
            /\ UNCHANGED <<firstrun_file, conf_file, CONF, hist>>
    /\ UNCHANGED <<P, serverport, portok, thistry, attempts, tried, boundPort,
                   sigintH, sigtermH, EXECUTOR, shutdownCalls, timer, loopRunning,
                   cb, firings, interval, initialIngest, caughtAt, firingAborted,
                   firingFailed, wk>>

\* main(), lines 213-216 and 384-388: the executor is constructed, then the
\* retry loop's variables are set.
ConstructPool ==
    /\ pc = "pool"
    /\ EXECUTOR' = "running"
    /\ portok' = FALSE
    /\ serverport' = P
    /\ thistry' = 0
    /\ pc' = "listen"
    /\ hist' = Append(hist, "pool")
    /\ UNCHANGED <<firstrun_file, conf_file, CONF, P, exitStatus, attempts, tried,
                   boundPort, sigintH, sigtermH, shutdownCalls, timer, loopRunning,
                   cb, firings, interval, initialIngest, caughtAt, firingAborted,
                   firingFailed, wk>>

\* The condition of the retry loop, line 389.
PortLoopCond == ~portok /\ thistry < maxtries

\* Lines 390-392: listen() succeeds.
ListenOk ==
    /\ pc = "listen"
    /\ PortLoopCond
    /\ attempts' = attempts + 1
    /\ tried' = serverport
    /\ boundPort' = serverport
    /\ portok' = TRUE
    /\ UNCHANGED <<firstrun_file, conf_file, CONF, P, pc, exitStatus, serverport,
                   thistry, sigintH, sigtermH, EXECUTOR, shutdownCalls, timer,
                   loopRunning, cb, firings, interval, initialIngest, caughtAt,
                   firingAborted, firingFailed, hist, wk>>

\* Lines 390-396: listen() raises socket.error; the port is incremented.  The
\* code leaves thistry as it is.
ListenInUse ==
    /\ pc = "listen"
    /\ PortLoopCond
    /\ serverport < P + MaxPortSpan
    /\ attempts' = attempts + 1
    /\ tried' = serverport
    /\ serverport' = serverport + 1
    /\ UNCHANGED <<firstrun_file, conf_file, CONF, P, pc, exitStatus, portok,
                   thistry, boundPort, sigintH, sigtermH, EXECUTOR, shutdownCalls,
                   timer, loopRunning, cb, firings, interval, initialIngest, caughtAt,
                   firingAborted, firingFailed, hist, wk>>

\* Lines 398-407: after the loop, give up or go on.
AfterPortLoop ==
    /\ pc = "listen"
    /\ ~PortLoopCond
    /\ IF ~portok
         THEN /\ Exit("exit1")
              /\ UNCHANGED hist
         ELSE /\ pc' = "reg_int"
              /\ hist' = Append(hist, "bound")
              /\ UNCHANGED exitStatus
    /\ UNCHANGED <<firstrun_file, conf_file, CONF, P, serverport, portok, thistry,
                   attempts, tried, boundPort, sigintH, sigtermH, EXECUTOR,
                   shutdownCalls, timer, loopRunning, cb, firings, interval, initialIngest,
                   caughtAt, firingAborted, firingFailed, wk>>

\* Line 410.
RegisterSigint ==
    /\ pc = "reg_int"
    /\ sigintH' = "recv_sigint"
    /\ pc' = "reg_term"
    /\ UNCHANGED <<firstrun_file, conf_file, CONF, P, exitStatus, serverport,
                   portok, thistry, attempts, tried, boundPort, sigtermH, EXECUTOR,
                   shutdownCalls, timer, loopRunning, cb, firings, interval, initialIngest,
                   caughtAt, firingAborted, firingFailed, hist, wk>>

\* Line 411, and the entry of the try block (lines 414-421).
RegisterSigterm ==
    /\ pc = "reg_term"
    /\ sigtermH' = "recv_sigint"
    /\ pc' = "try"
    /\ hist' = Append(hist, "handlers")
    /\ UNCHANGED <<firstrun_file, conf_file, CONF, P, exitStatus, serverport,
                   portok, thistry, attempts, tried, boundPort, sigintH, EXECUTOR,
                   shutdownCalls, timer, loopRunning, cb, firings, interval, initialIngest,
                   caughtAt, firingAborted, firingFailed, wk>>

\* InvokeInitialIngest as it would be if line 424 handed the first run to the
\* loop (a callback) instead of calling it: main() goes on while it is pending.
InvokeInitialIngestDeferred ==
    /\ pc = "try"
    /\ initialIngest' = "running"
    /\ pc' = "arm"
    /\ hist' = Append(hist, "ingest")
    /\ UNCHANGED <<firstrun_file, conf_file, CONF, P, exitStatus, serverport,
                   portok, thistry, attempts, tried, boundPort, sigintH, sigtermH,
                   EXECUTOR, shutdownCalls, timer, loopRunning, cb, firings, interval,
                   caughtAt, firingAborted, firingFailed, wk>>

\* Line 424: the Ingest Job is called synchronously.
InvokeInitialIngest ==
    /\ pc = "try"
    /\ initialIngest' = "running"
    /\ pc' = "ingest"
    /\ hist' = Append(hist, "ingest")
    /\ UNCHANGED <<firstrun_file, conf_file, CONF, P, exitStatus, serverport,
                   portok, thistry, attempts, tried, boundPort, sigintH, sigtermH,
                   EXECUTOR, shutdownCalls, timer, loopRunning, cb, firings, interval,
                   caughtAt, firingAborted, firingFailed, wk>>

\* Line 424: the call returns.
InitialIngestReturns ==
    /\ pc = "ingest"
    /\ initialIngest' = "returned"
    /\ pc' = "arm"
    /\ UNCHANGED <<firstrun_file, conf_file, CONF, P, exitStatus, serverport,
                   portok, thistry, attempts, tried, boundPort, sigintH, sigtermH,
                   EXECUTOR, shutdownCalls, timer, loopRunning, cb, firings, interval,
                   caughtAt, firingAborted, firingFailed, hist, wk>>

\* Line 424: the call raises an Exception.  The try block of lines 414-438
\* catches KeyboardInterrupt only, so the exception leaves main().
InitialIngestRaises ==
    /\ pc = "ingest"
    /\ initialIngest' = "raised"
    /\ Exit("uncaught")
    /\ UNCHANGED <<firstrun_file, conf_file, CONF, P, serverport, portok, thistry,
                   attempts, tried, boundPort, sigintH, sigtermH, EXECUTOR,
                   shutdownCalls, timer, loopRunning, cb, firings, interval, caughtAt,
                   firingAborted, firingFailed, hist, wk>>

\* ArmTimer as it would be with lines 428-433 placed before the "run once at
\* start" call of line 424.
ArmTimerBeforeIngest ==
    /\ pc \in {"try", "arm"}
    /\ timer' = "Armed"
    /\ pc' = "startloop"
    /\ hist' = Append(hist, "armed")
    /\ UNCHANGED <<firstrun_file, conf_file, CONF, P, exitStatus, serverport,
                   portok, thistry, attempts, tried, boundPort, sigintH, sigtermH,
                   EXECUTOR, shutdownCalls, loopRunning, cb, firings, interval,
                   initialIngest, caughtAt, firingAborted, firingFailed, wk>>

\* The delay PeriodicCallback puts before a firing when random.random() returns
\* k / RandomSteps: callback_time * (1 + jitter * (random() - 0.5)).
NextInterval(k) ==
    PeriodMs + ((PeriodMs \div 100) * JitterPercent * (2 * k - RandomSteps))
                   \div (2 * RandomSteps)

\* Line 428 looks PeriodicCallback up on the object IOLoop.current() returned.
\* tornado defines PeriodicCallback in the module tornado.ioloop and gives an
\* IOLoop no attribute of that name: there the lookup raises AttributeError,
\* which line 438 does not catch, and main() ends at line 428.
ArmTimerRaises ==
    /\ pc = "arm"
    /\ Exit("AttributeError")
    /\ UNCHANGED <<firstrun_file, conf_file, CONF, P, serverport,
                   portok, thistry, attempts, tried, boundPort, sigintH, sigtermH,
                   EXECUTOR, shutdownCalls, timer, loopRunning, cb, firings, interval,
                   initialIngest, caughtAt, firingAborted, firingFailed, hist, wk>>

\* Lines 428-433: the PeriodicCallback is created and started (an IOLoop that
\* answers the lookup of line 428 with tornado.ioloop.PeriodicCallback).
ArmTimer ==
    /\ pc = "arm"
    /\ timer' = "Armed"
    /\ pc' = "startloop"
    /\ hist' = Append(hist, "armed")
    /\ UNCHANGED <<firstrun_file, conf_file, CONF, P, exitStatus, serverport,
                   portok, thistry, attempts, tried, boundPort, sigintH, sigtermH,
                   EXECUTOR, shutdownCalls, loopRunning, cb, firings, interval,
                   initialIngest, caughtAt, firingAborted, firingFailed, wk>>

\* Line 436: loop.start().
StartLoop ==
    /\ pc = "startloop"
    /\ loopRunning' = TRUE
    /\ pc' = "loop"
    /\ hist' = Append(hist, "loop")
    /\ UNCHANGED <<firstrun_file, conf_file, CONF, P, exitStatus, serverport,
                   portok, thistry, attempts, tried, boundPort, sigintH, sigtermH,
                   EXECUTOR, shutdownCalls, timer, cb, firings, interval, initialIngest,
                   caughtAt, firingAborted, firingFailed, wk>>

\* The event loop runs the PeriodicCallback: a firing calls the Ingest Job on
\* the loop's thread.
TimerFires ==
    /\ pc = "loop"
    /\ loopRunning
    /\ timer = "Armed"
    /\ cb = "none"
    /\ firings < MaxFirings
    /\ cb' = "ingest"
    /\ firings' = firings + 1
    /\ \E k \in 0..(RandomSteps - 1) : interval' = NextInterval(k)
    /\ UNCHANGED <<firstrun_file, conf_file, CONF, P, pc, exitStatus, serverport,
                   portok, thistry, attempts, tried, boundPort, sigintH, sigtermH,
                   EXECUTOR, shutdownCalls, timer, loopRunning, initialIngest,
                   caughtAt, firingAborted, firingFailed, hist, wk>>

\* The firing's call returns or raises an Exception; PeriodicCallback logs an
\* Exception of its callback and schedules the next firing either way.
FiringEnds(raised) ==
    /\ pc = "loop"
    /\ cb = "ingest"
    /\ cb' = "none"
    /\ interval' = 0
    /\ firingFailed' = (firingFailed \/ raised)
    /\ UNCHANGED <<firstrun_file, conf_file, CONF, P, pc, exitStatus, serverport,
                   portok, thistry, attempts, tried, boundPort, sigintH, sigtermH,
                   EXECUTOR, shutdownCalls, timer, loopRunning, firings,
                   initialIngest, caughtAt, firingAborted, hist, wk>>

\* The handler of a signal: recv_sigint (lines 29-34) once registered, else
\* Python's default (KeyboardInterrupt for SIGINT, termination for SIGTERM).
HandlerOf(sig) == IF sig = "SIGINT" THEN sigintH ELSE sigtermH

\* A signal raises KeyboardInterrupt in main() unless it is a SIGTERM still at
\* its default action.
RaisesKeyboardInterrupt(sig) == sig = "SIGINT" \/ HandlerOf(sig) = "recv_sigint"

\* The positions of main() inside the try block of lines 414-436.
InTry == {"try", "ingest", "arm", "startloop", "loop"}

\* SIGTERM before line 411 has run: the default action ends the process.
SignalKills(sig) ==
    /\ pc # "exited"
    /\ ~RaisesKeyboardInterrupt(sig)
    /\ Exit("killed")
    /\ UNCHANGED <<firstrun_file, conf_file, CONF, P, serverport, portok, thistry,
                   attempts, tried, boundPort, sigintH, sigtermH, EXECUTOR,
                   shutdownCalls, timer, loopRunning, cb, firings, interval, initialIngest,
                   caughtAt, firingAborted, firingFailed, hist, wk>>

\* KeyboardInterrupt raised inside the try block: control goes to the handler
\* of line 438, unwinding whatever was running (the initial Ingest Job, or the
\* loop and the callback it was running).
SignalCaught(sig) ==
    /\ pc \in InTry
    /\ RaisesKeyboardInterrupt(sig)
    /\ pc' = "except"
    /\ caughtAt' = pc
    /\ cb' = "none"
    /\ interval' = 0
    /\ firingAborted' = (cb = "ingest")
    /\ UNCHANGED <<firstrun_file, conf_file, CONF, P, exitStatus, serverport,
                   portok, thistry, attempts, tried, boundPort, sigintH, sigtermH,
                   EXECUTOR, shutdownCalls, timer, loopRunning, firings,
                   initialIngest, firingFailed, hist, wk>>

\* KeyboardInterrupt raised outside the try block (before line 414, in the
\* handler of lines 440-441, in EXECUTOR.shutdown() or in time.sleep): nothing
\* catches it and it leaves main().
SignalUncaught(sig) ==
    /\ pc \notin InTry
    /\ pc # "exited"
    /\ RaisesKeyboardInterrupt(sig)
    /\ Exit("uncaught")
    /\ UNCHANGED <<firstrun_file, conf_file, CONF, P, serverport, portok, thistry,
                   attempts, tried, boundPort, sigintH, sigtermH, EXECUTOR,
                   shutdownCalls, timer, loopRunning, cb, firings, interval, initialIngest,
                   caughtAt, firingAborted, firingFailed, hist, wk>>

\* Lines 440-441: the handler logs and calls loop.stop().  It stops neither
\* periodic_arxiv_updater nor http_server.
ExceptHandler ==
    /\ pc = "except"
    /\ loopRunning' = FALSE
    /\ pc' = "shutdown_call"
    /\ UNCHANGED <<firstrun_file, conf_file, CONF, P, exitStatus, serverport,
                   portok, thistry, attempts, tried, boundPort, sigintH, sigtermH,
                   EXECUTOR, shutdownCalls, timer, cb, firings, interval, initialIngest,
                   caughtAt, firingAborted, firingFailed, hist, wk>>

\* PoolShutdownCall as it would be without line 444: main() goes straight to
\* the sleep of line 445.
PoolShutdownCallOmitted ==
    /\ pc = "shutdown_call"
    /\ pc' = "grace"
    /\ UNCHANGED <<firstrun_file, conf_file, CONF, P, exitStatus, serverport,
                   portok, thistry, attempts, tried, boundPort, sigintH, sigtermH,
                   EXECUTOR, shutdownCalls, timer, loopRunning, cb, firings, interval,
                   initialIngest, caughtAt, firingAborted, firingFailed, hist, wk>>

\* PoolShutdownCall as it would be if main() waited for the work in flight to
\* end before calling EXECUTOR.shutdown().
PoolShutdownCallAfterDrain ==
    /\ pc = "shutdown_call"
    /\ \A w \in DOMAIN wk : wk[w].st # "busy"
    /\ EXECUTOR' = "shutting"
    /\ shutdownCalls' = shutdownCalls + 1
    /\ pc' = "shutdown_wait"
    /\ UNCHANGED <<firstrun_file, conf_file, CONF, P, exitStatus, serverport,
                   portok, thistry, attempts, tried, boundPort, sigintH, sigtermH,
                   timer, loopRunning, cb, firings, interval, initialIngest, caughtAt,
                   firingAborted, firingFailed, hist, wk>>

\* Line 444: EXECUTOR.shutdown() is called.
PoolShutdownCall ==
    /\ pc = "shutdown_call"
    /\ EXECUTOR' = "shutting"
    /\ shutdownCalls' = shutdownCalls + 1
    /\ pc' = "shutdown_wait"
    /\ UNCHANGED <<firstrun_file, conf_file, CONF, P, exitStatus, serverport,
                   portok, thistry, attempts, tried, boundPort, sigintH, sigtermH,
                   timer, loopRunning, cb, firings, interval, initialIngest, caughtAt,
                   firingAborted, firingFailed, hist, wk>>

\* Line 444: EXECUTOR.shutdown() returns, once every worker has gone.
PoolShutdownReturns ==
    /\ pc = "shutdown_wait"
    /\ \A w \in Workers : wk[w].st \in {"unspawned", "exited", "killed"}
    /\ EXECUTOR' = "closed"
    /\ pc' = "grace"
    /\ UNCHANGED <<firstrun_file, conf_file, CONF, P, exitStatus, serverport,
                   portok, thistry, attempts, tried, boundPort, sigintH, sigtermH,
                   shutdownCalls, timer, loopRunning, cb, firings, interval, initialIngest,
                   caughtAt, firingAborted, firingFailed, hist, wk>>

\* Line 445 and the return of main(): time.sleep(2), then the process ends.
GraceSleep ==
    /\ pc = "grace"
    /\ Exit("exit0")
    /\ UNCHANGED <<firstrun_file, conf_file, CONF, P, serverport, portok, thistry,
                   attempts, tried, boundPort, sigintH, sigtermH, EXECUTOR,
                   shutdownCalls, timer, loopRunning, cb, firings, interval, initialIngest,
                   caughtAt, firingAborted, firingFailed, hist, wk>>

\* --------------------------------------------------------------- workers

\* SetupWorkerSignal as it would be without line 101.
SetupWorkerSignalOmitted(r) == r

\* setup_worker, line 101: the worker ignores SIGINT.
SetupWorkerSignal(r) == [r EXCEPT !.sigint = "ignore"]

\* SetupWorkerDatabase as it would be if it swallowed the error of
\* get_astrocoffee_db and returned.
SetupWorkerDatabaseSwallows(r, ok) ==
    IF ok
      THEN [r EXCEPT !.engine = TRUE, !.connection = TRUE, !.metadata = TRUE,
                     !.opened = @ + 1]
      ELSE r

\* SetupWorkerDatabase as it would be if the engine were stored before the
\* connection is opened, so that a failure left the engine behind.
SetupWorkerDatabasePartial(r, ok) ==
    IF ok
      THEN [r EXCEPT !.engine = TRUE, !.connection = TRUE, !.metadata = TRUE,
                     !.opened = @ + 1]
      ELSE [r EXCEPT !.engine = TRUE, !.initFailed = TRUE]

\* setup_worker, lines 104-110: the three attributes are set from the result of
\* get_astrocoffee_db; when that call raises, nothing is assigned.
SetupWorkerDatabase(r, ok) ==
    IF ok
      THEN [r EXCEPT !.engine = TRUE, !.connection = TRUE, !.metadata = TRUE,
                     !.opened = @ + 1]
      ELSE [r EXCEPT !.initFailed = TRUE]

\* get_local_authors, lines 40-41: reading currproc.connection and
\* currproc.metadata raises AttributeError when either is absent.
GetLocalAuthors(r) == IF r.connection /\ r.metadata THEN "ok" ELSE "AttributeError"

\* CloseDatabase as it would be with lines 128-130 (the engine) placed before
\* lines 124-126 (the connection).
CloseDatabaseEngineFirst(r, closeErr, disposeErr) ==
    LET r0 == [r EXCEPT !.finalized = @ + 1]
        r1 == IF r0.metadata
                THEN [r0 EXCEPT !.metadata = FALSE, !.ops = Append(@, "metadata")]
                ELSE r0
    IN  IF r1.engine /\ disposeErr
          THEN [r1 EXCEPT !.finRaised = TRUE]
        ELSE LET r2 == IF r1.engine
                         THEN [r1 EXCEPT !.engine = FALSE, !.disposed = @ + 1,
                                         !.ops = Append(@, "dispose")]
                         ELSE r1
             IN  IF r2.connection /\ closeErr
                   THEN [r2 EXCEPT !.finRaised = TRUE]
                 ELSE LET r3 == IF r2.connection
                                  THEN [r2 EXCEPT !.connection = FALSE,
                                                  !.closed = @ + 1,
                                                  !.ops = Append(@, "close")]
                                  ELSE r2
                      IN  [r3 EXCEPT !.logged = TRUE, !.ops = Append(@, "log")]

\* CloseDatabase as it would be without the del statements of lines 122, 126
\* and 130: the attributes stay on the process after they have been used.
CloseDatabaseKeepsAttributes(r, closeErr, disposeErr) ==
    LET r0 == [r EXCEPT !.finalized = @ + 1]
        r1 == IF r0.metadata THEN [r0 EXCEPT !.ops = Append(@, "metadata")] ELSE r0
    IN  IF r1.connection /\ closeErr
          THEN [r1 EXCEPT !.finRaised = TRUE]
        ELSE LET r2 == IF r1.connection
                         THEN [r1 EXCEPT !.closed = @ + 1, !.ops = Append(@, "close")]
                         ELSE r1
             IN  IF r2.engine /\ disposeErr
                   THEN [r2 EXCEPT !.finRaised = TRUE]
                 ELSE LET r3 == IF r2.engine
                                  THEN [r2 EXCEPT !.disposed = @ + 1,
                                                  !.ops = Append(@, "dispose")]
                                  ELSE r2
                      IN  [r3 EXCEPT !.logged = TRUE, !.ops = Append(@, "log")]

\* close_database, lines 120-133.  An exception of connection.close() or of
\* engine.dispose() leaves the function at once.
CloseDatabase(r, closeErr, disposeErr) ==
    LET r0 == [r EXCEPT !.finalized = @ + 1]
        r1 == IF r0.metadata
                THEN [r0 EXCEPT !.metadata = FALSE, !.ops = Append(@, "metadata")]
                ELSE r0
    IN  IF r1.connection /\ closeErr
          THEN [r1 EXCEPT !.finRaised = TRUE]
        ELSE LET r2 == IF r1.connection
                         THEN [r1 EXCEPT !.connection = FALSE, !.closed = @ + 1,
                                         !.ops = Append(@, "close")]
                         ELSE r1
             IN  IF r2.engine /\ disposeErr
                   THEN [r2 EXCEPT !.finRaised = TRUE]
                 ELSE LET r3 == IF r2.engine
                                  THEN [r2 EXCEPT !.engine = FALSE, !.disposed = @ + 1,
                                                  !.ops = Append(@, "dispose")]
                                  ELSE r2
                      IN  [r3 EXCEPT !.logged = TRUE, !.ops = Append(@, "log")]

\* The model follows the worker processes for as long as the Supervisor's
\* process lives.
Alive == pc # "exited"

\* The pool starts a worker process; the child inherits the Supervisor's
\* disposition of SIGINT.
Spawn(w) ==
    /\ EXECUTOR = "running"
    /\ Alive
    /\ wk[w].st = "unspawned"
    /\ wk' = [wk EXCEPT ![w] = [@ EXCEPT !.st = "spawned", !.sigint = sigintH]]
    /\ UNCHANGED supVars

\* The worker runs setup_worker up to line 101.
InitSignal(w) ==
    /\ Alive
    /\ wk[w].st = "spawned"
    /\ wk' = [wk EXCEPT ![w] = [SetupWorkerSignal(@) EXCEPT !.st = "sigset"]]
    /\ UNCHANGED supVars

\* The worker runs the rest of setup_worker; when it raises, the worker takes
\* no unit of work and goes on to its teardown.
InitDatabase(w, ok) ==
    /\ Alive
    /\ wk[w].st = "sigset"
    /\ LET r == SetupWorkerDatabase(wk[w], ok)
       IN  wk' = [wk EXCEPT ![w] = [r EXCEPT
                      !.st = IF r.initFailed THEN "failed" ELSE "idle"]]
    /\ UNCHANGED supVars

\* The main process is running code that submits work: the Ingest Job or a
\* request handler on the running loop.
Submitting == pc = "ingest" \/ (pc = "loop" /\ loopRunning)

\* An idle worker takes a unit of work (get_local_authors) from the pool.
TaskStart(w) ==
    /\ EXECUTOR = "running"
    /\ Submitting
    /\ wk[w].st = "idle"
    /\ wk' = [wk EXCEPT ![w] = [@ EXCEPT
                 !.st = "busy",
                 !.taskErr = @ \/ GetLocalAuthors(wk[w]) = "AttributeError"]]
    /\ UNCHANGED supVars

\* The unit of work ends; its result or its exception goes back to the pool.
TaskDone(w) ==
    /\ Alive
    /\ wk[w].st = "busy"
    /\ wk' = [wk EXCEPT ![w] = [@ EXCEPT !.st = "idle"]]
    /\ UNCHANGED supVars

\* After shutdown() the pool cuts off a unit of work still in flight when its
\* grace period ends; the worker then goes to its teardown like an idle one.
TaskCutOff(w) ==
    /\ Alive
    /\ EXECUTOR = "shutting"
    /\ wk[w].st = "busy"
    /\ wk' = [wk EXCEPT ![w] = [@ EXCEPT !.st = "idle", !.cut = TRUE]]
    /\ UNCHANGED supVars

\* Teardown of a worker: after shutdown() an idle worker, and at once a worker
\* whose initializer failed, runs its finalizer, and its process ends; the
\* record of the signals the process received ends with it.
Finalize(w, closeErr, disposeErr) ==
    /\ Alive
    /\ \/ EXECUTOR = "shutting" /\ wk[w].st = "idle"
       \/ wk[w].st = "failed"
    /\ wk' = [wk EXCEPT ![w] = [CloseDatabase(@, closeErr, disposeErr) EXCEPT
                                  !.st = "exited", !.nsig = 0, !.sigAt = "none"]]
    /\ UNCHANGED supVars

\* The number of SIGINTs delivered to the workers of a set.
RECURSIVE SignalsTo(_)
SignalsTo(S) ==
    IF S = {} THEN 0
    ELSE LET w == CHOOSE x \in S : TRUE
         IN  wk[w].nsig + SignalsTo(S \ {w})

\* SIGINT is delivered to a worker process: ignored when the worker ignores
\* it, else KeyboardInterrupt ends the worker where it stands.
WorkerSigint(w) ==
    /\ Alive
    /\ wk[w].st \in {"spawned", "sigset", "idle", "busy"}
    /\ SignalsTo(Workers) < MaxWorkerSignals
    /\ wk' = [wk EXCEPT ![w] = [@ EXCEPT
                 !.nsig = @ + 1,
                 !.sigAt = wk[w].st,
                 !.st = IF wk[w].sigint = "ignore" THEN @ ELSE "killed"]]
    /\ UNCHANGED supVars

Next ==
    \/ LoadConfig
    \/ ConstructPool
    \/ ListenOk
    \/ ListenInUse
    \/ AfterPortLoop
    \/ RegisterSigint
    \/ RegisterSigterm
    \/ InvokeInitialIngest
    \/ InitialIngestReturns
    \/ InitialIngestRaises
    \/ ArmTimerRaises
    \/ ArmTimer
    \/ StartLoop
    \/ TimerFires
    \/ \E raised \in BOOLEAN : FiringEnds(raised)
    \/ \E sig \in Signals : SignalKills(sig)
    \/ \E sig \in Signals : SignalCaught(sig)
    \/ \E sig \in Signals : SignalUncaught(sig)
    \/ ExceptHandler
    \/ PoolShutdownCall
    \/ PoolShutdownReturns
    \/ GraceSleep
    \/ \E w \in Workers : Spawn(w)
    \/ \E w \in Workers : InitSignal(w)
    \/ \E w \in Workers, ok \in BOOLEAN : InitDatabase(w, ok)
    \/ \E w \in Workers : TaskStart(w)
    \/ \E w \in Workers : TaskDone(w)
    \/ \E w \in Workers : TaskCutOff(w)
    \/ \E w \in Workers, closeErr \in BOOLEAN, disposeErr \in BOOLEAN :
           Finalize(w, closeErr, disposeErr)
    \/ \E w \in Workers : WorkerSigint(w)

Spec == Init /\ [][Next]_vars

\* The scheduling the processes can count on: main() goes on from the handler
\* of line 438 to its end, a worker process goes on through its initializer
\* and its teardown, and the pool's grace period for work in flight ends.
\* Nothing makes a unit of work end (TaskDone).
Fairness ==
    /\ WF_vars(ExceptHandler)
    /\ WF_vars(PoolShutdownCall)
    /\ WF_vars(PoolShutdownReturns)
    /\ WF_vars(GraceSleep)
    /\ \A w \in Workers :
           /\ WF_vars(InitSignal(w))
           /\ WF_vars(\E ok \in BOOLEAN : InitDatabase(w, ok))
           /\ WF_vars(TaskCutOff(w))
           /\ WF_vars(\E closeErr \in BOOLEAN, disposeErr \in BOOLEAN :
                         Finalize(w, closeErr, disposeErr))

LiveSpec == Spec /\ Fairness

\* ------------------------------------------- close_database called repeatedly

\* The worker processes as setup_worker leaves them: one on which it never ran,
\* one on which it raised, one on which it returned.
WorkerStarts ==
    { [NoWorker EXCEPT !.st = "spawned"],
      [SetupWorkerDatabase(SetupWorkerSignal(NoWorker), FALSE) EXCEPT !.st = "failed"],
      [SetupWorkerDatabase(SetupWorkerSignal(NoWorker), TRUE) EXCEPT !.st = "idle"] }

\* A serving Supervisor, with each worker in one of its starting states.
InitFin ==
    /\ firstrun_file = TRUE
    /\ conf_file = TRUE
    /\ CONF = TRUE
    /\ P \in ConfiguredPorts
    /\ pc = "loop"
    /\ exitStatus = "running"
    /\ serverport = P
    /\ portok = TRUE
    /\ thistry = 0
    /\ attempts = 1
    /\ tried = P
    /\ boundPort = P
    /\ sigintH = "recv_sigint"
    /\ sigtermH = "recv_sigint"
    /\ EXECUTOR = "running"
    /\ shutdownCalls = 0
    /\ timer = "Armed"
    /\ loopRunning = TRUE
    /\ cb = "none"
    /\ firings = 0
    /\ interval = 0
    /\ initialIngest = "returned"
    /\ caughtAt = "none"
    /\ firingAborted = FALSE
    /\ firingFailed = FALSE
    /\ hist = <<"config", "pool", "bound", "handlers", "ingest", "armed", "loop">>
    /\ wk \in [Workers -> WorkerStarts]

\* close_database() is called in a worker process, once more.
CloseCall(w, closeErr, disposeErr) ==
    /\ wk[w].finalized < MaxCloseCalls
    /\ wk' = [wk EXCEPT ![w] = CloseDatabase(@, closeErr, disposeErr)]
    /\ UNCHANGED supVars

NextFin ==
    \E w \in Workers, closeErr \in BOOLEAN, disposeErr \in BOOLEAN :
        CloseCall(w, closeErr, disposeErr)

SpecFin == InitFin /\ [][NextFin]_vars

\* ---------------------------------------------------------------- claims

\* C1: every port passed to listen(), and the port the listener ends up bound
\* to, lies in P .. P+9.
C1_PortWithinRange ==
    /\ tried # 0 => tried \in P .. (P + maxtries - 1)
    /\ boundPort # 0 => boundPort \in P .. (P + maxtries - 1)

\* C2: while every listen() call has failed, no more than maxtries calls are
\* made, and after the maxtries-th failure the process exits with status 1
\* without registering handlers, running the Ingest Job or starting the loop.
C2_StopsAfterMaxtries ==
    /\ ~portok => attempts <= maxtries
    /\ (~portok /\ attempts >= maxtries /\ pc = "exited") =>
           /\ exitStatus = "exit1"
           /\ sigintH = "default" /\ sigtermH = "default"
           /\ initialIngest = "none"
           /\ ~loopRunning

\* C3: when the shutdown signal arrived while the event loop was running, the
\* recurring timer is stopped and the listener is closed by the time
\* EXECUTOR.shutdown() has been called.
C3_StopBeforePoolShutdown ==
    (caughtAt = "loop" /\ shutdownCalls > 0) =>
        (timer = "Stopped" /\ boundPort = 0)

\* C4: once main() has caught a shutdown signal, the process ends only by
\* completing one shutdown sequence: EXECUTOR.shutdown() called once and
\* returned, then the grace wait, then a normal exit.
C4_SingleShutdown ==
    /\ shutdownCalls <= 1
    /\ (caughtAt # "none" /\ pc = "exited") =>
           (exitStatus = "exit0" /\ shutdownCalls = 1 /\ EXECUTOR = "closed")

\* C5: an Ingest Job invocation that raises, at startup or on a timer firing,
\* does not end the server process, and the timer becomes or stays Armed.
C5_IngestFailureContained ==
    /\ initialIngest = "raised" => exitStatus = "running"
    /\ (firingFailed /\ caughtAt = "none") =>
           (exitStatus = "running" /\ timer = "Armed")

\* The startup steps of main(), in the order of the specification.
Steps == <<"config", "pool", "bound", "handlers", "ingest", "armed", "loop">>

IsPrefix(s, t) == Len(s) <= Len(t) /\ \A i \in 1..Len(s) : s[i] = t[i]

Taken(step) == \E i \in 1..Len(hist) : hist[i] = step

\* C6: the startup steps are taken in the order config, pool, listener bound,
\* handlers registered, initial Ingest Job, timer armed, loop started, each
\* once; the timer is never Armed and the loop never started before the initial
\* synchronous Ingest Job invocation has returned.
C6_StartupOrder ==
    /\ IsPrefix(hist, Steps)
    /\ Taken("config") <=> CONF
    /\ Taken("pool") <=> EXECUTOR # "none"
    /\ Taken("bound") => (portok /\ boundPort # 0)
    /\ Taken("handlers") <=> (sigintH = "recv_sigint" /\ sigtermH = "recv_sigint")
    /\ Taken("ingest") <=> initialIngest # "none"
    /\ Taken("armed") <=> timer # "Unarmed"
    /\ timer # "Unarmed" => initialIngest = "returned"
    /\ loopRunning => Taken("loop")
    /\ Taken("loop") => (initialIngest = "returned" /\ timer # "Unarmed")

\* C6 witness: a startup that got as far as the running event loop.
C6_Witness == pc = "loop" /\ loopRunning /\ hist = Steps

\* C7: a Supervisor that completed its shutdown with the timer armed has
\* stopped the timer, no firing starts once shutdown has begun, and no firing
\* in progress is cut off.
C7_SchedulerStop ==
    /\ (pc = "exited" /\ exitStatus = "exit0" /\ Taken("armed")) => timer = "Stopped"
    /\ caughtAt # "none" => cb = "none"
    /\ ~firingAborted

\* C8: close_database() never raises, and the engine is disposed whatever the
\* outcome of closing the connection.
C8_FinalizerNeverRaises ==
    \A w \in Workers :
        wk[w].finalized > 0 => (~wk[w].finRaised /\ ~wk[w].engine)

\* The worker holds a database connection or is executing a unit of work.
Guarded(r) == r.connection \/ r.st = "busy"

\* C9: setup_worker ignores SIGINT before it opens the database, so a worker
\* that holds a connection or is executing a unit of work ignores SIGINT, and
\* a SIGINT delivered to it changes neither its state nor its connection.
C9_InterruptIsolation ==
    /\ [](\A w \in Workers :
             (Guarded(wk[w]) \/ wk[w].st = "sigset") => wk[w].sigint = "ignore")
    /\ [][\A w \in Workers :
             (Guarded(wk[w]) /\ wk'[w].nsig > wk[w].nsig) =>
                 /\ wk'[w].st = wk[w].st
                 /\ wk'[w].connection = wk[w].connection
                 /\ wk'[w].engine = wk[w].engine
                 /\ wk'[w].metadata = wk[w].metadata]_vars

\* C9 witness: SIGINT reached a worker in the middle of a unit of work, and
\* the worker is still at work.
C9_Witness ==
    \E w \in Workers :
        wk[w].sigAt = "busy" /\ wk[w].st = "busy" /\ wk[w].connection

HasContext(r) == r.engine /\ r.connection /\ r.metadata

\* C10: a worker opens at most one WorkerContext, and only in its initializer;
\* a unit of work runs only on a worker that holds its context (so
\* get_local_authors never fails for want of it); a worker whose initializer
\* failed holds no context and executes nothing.
C10_WorkerContext ==
    \A w \in Workers :
        /\ wk[w].opened <= 1
        /\ wk[w].st \in {"unspawned", "spawned", "sigset"} => wk[w].opened = 0
        /\ wk[w].st = "busy" => HasContext(wk[w])
        /\ ~wk[w].taskErr
        /\ wk[w].initFailed =>
               /\ wk[w].st \in {"failed", "exited"}
               /\ ~HasContext(wk[w])
               /\ wk[w].opened = 0

\* C10 witness: one worker is executing a unit of work while another's
\* initializer has failed.
C10_Witness ==
    \E w, v \in Workers :
        wk[w].st = "busy" /\ HasContext(wk[w]) /\ wk[v].initFailed

\* EXECUTOR.shutdown() has returned to main().
ShutdownReturned == pc = "grace" \/ (pc = "exited" /\ exitStatus = "exit0")

\* The worker ran its initializer to its end, whether it returned or raised.
RanInitializer(r) == r.opened > 0 \/ r.initFailed

Outstanding ==
    (IF initialIngest = "running" /\ pc \in InTry THEN 1 ELSE 0)
      + (IF cb = "ingest" THEN 1 ELSE 0)

\* C12: at most one Ingest Job invocation is outstanding; the timer is armed,
\* and fires, only after the initial invocation has returned; and a firing
\* starts only when no firing is in progress.
C12_NoOverlappingIngest ==
    /\ [](/\ Outstanding <= 1
          /\ timer # "Unarmed" => initialIngest = "returned"
          /\ cb = "ingest" => (initialIngest = "returned" /\ firings >= 1))
    /\ [][firings' > firings => (cb = "none" /\ cb' = "ingest")]_vars

\* C12 witness: a second firing is in progress, after the first has ended.
C12_Witness == cb = "ingest" /\ firings = 2 /\ initialIngest = "returned"

C14_FinalizerOrder ==
    \A w \in Workers :
        /\ (wk[w].finalized = 1 /\ wk[w].opened = 1 /\ ~wk[w].finRaised) =>
               /\ wk[w].ops = <<"metadata", "close", "dispose", "log">>
               /\ wk[w].logged
               /\ ~wk[w].engine /\ ~wk[w].connection /\ ~wk[w].metadata
        /\ \A i, j \in 1..Len(wk[w].ops) :
               (wk[w].ops[i] = "dispose" /\ wk[w].ops[j] = "close") => j < i

\* C14 witness: a worker that held its context has been finalized without an
\* error.
C14_Witness ==
    \E w \in Workers :
        /\ wk[w].st = "exited" /\ wk[w].opened = 1
        /\ wk[w].finalized = 1 /\ ~wk[w].finRaised
        /\ wk[w].closed = 1 /\ wk[w].disposed = 1

C16_ConfigDecision ==
    /\ [](pc = "exited" /\ exitStatus = "exit1" /\ ~CONF
            => EXECUTOR = "none" /\ boundPort = 0 /\ attempts = 0)
    /\ [][(pc = "start" /\ pc' # "start" /\ exitStatus' \notin {"killed", "uncaught"})
            => \/ /\ firstrun_file /\ conf_file
                  /\ CONF' /\ pc' = "pool" /\ exitStatus' = "running"
                  /\ UNCHANGED <<firstrun_file, conf_file>>
               \/ /\ firstrun_file /\ ~conf_file
                  /\ ~CONF' /\ pc' = "exited" /\ exitStatus' = "exit1"
                  /\ UNCHANGED <<firstrun_file, conf_file>>
               \/ /\ ~firstrun_file
                  /\ firstrun_file' /\ conf_file'
                  /\ CONF' /\ pc' = "pool" /\ exitStatus' = "running"]_vars

C16_Witness ==
    /\ pc = "exited" /\ exitStatus = "exit1"
    /\ firstrun_file /\ ~conf_file /\ ~CONF

\* C17: whenever main() has constructed the Worker Pool and the process has then
\* ended, EXECUTOR.shutdown() has been called.
C17_PoolAlwaysShutDown ==
    (pc = "exited" /\ EXECUTOR # "none") => shutdownCalls >= 1

HasNothing(r) == ~r.engine /\ ~r.connection /\ ~r.metadata

\* C19: once setup_worker has finished, by returning or by raising, the worker
\* holds engine, connection and metadata all together or none of them: all of
\* them wherever a unit of work can run, none of them after a failed
\* initializer, which is what the finalizer then finds.
C19_InitializerAtomic ==
    \A w \in Workers :
        /\ wk[w].st \in {"idle", "busy", "failed", "killed"}
              => (HasContext(wk[w]) \/ HasNothing(wk[w]))
        /\ wk[w].st \in {"idle", "busy"} => HasContext(wk[w])
        /\ wk[w].st = "failed" => HasNothing(wk[w])

\* C19 witness: one worker's initializer has raised and left it with nothing
\* while another's has returned and left it with the whole context.
C19_Witness ==
    \E v, w \in Workers :
        /\ wk[v].st = "failed" /\ wk[v].initFailed /\ HasNothing(wk[v])
        /\ wk[w].st = "idle" /\ wk[w].opened = 1 /\ HasContext(wk[w])

\* C18: over any sequence of close_database() calls in a worker, the connection
\* is closed at most once and the engine disposed at most once; a call on a
\* worker that holds no engine, connection or metadata (its initializer never
\* ran or failed, or an earlier call went through) closes nothing, disposes
\* nothing and raises nothing; and a call that goes through leaves the worker
\* holding none of the three.
C18_FinalizerIdempotent ==
    /\ [](\A w \in Workers : wk[w].closed <= 1 /\ wk[w].disposed <= 1)
    /\ [][\A w \in Workers :
            wk'[w].finalized = wk[w].finalized + 1 =>
              /\ HasNothing(wk[w]) =>
                   wk'[w] = [wk[w] EXCEPT !.finalized = @ + 1, !.logged = TRUE,
                                          !.ops = Append(@, "log")]
              /\ (wk'[w].ops # wk[w].ops /\ wk'[w].ops[Len(wk'[w].ops)] = "log")
                   => HasNothing(wk'[w])]_vars

\* C18 witness: close_database() has been called twice or more on a worker that
\* held a context, which closed and disposed it once and never raised, and on a
\* worker whose initializer had failed.
C18_Witness ==
    \E v, w \in Workers :
        /\ wk[v].opened = 1 /\ wk[v].finalized >= 2 /\ ~wk[v].finRaised
        /\ wk[v].closed = 1 /\ wk[v].disposed = 1 /\ HasNothing(wk[v])
        /\ wk[w].initFailed /\ wk[w].finalized >= 2 /\ ~wk[w].finRaised
        /\ wk[w].closed = 0 /\ wk[w].disposed = 0

=============================================================================
